---- MODULE Spec2Model ----
(***************************************************************************)
(* A model of the E2E Networks chat demo: the LangChain wrapper            *)
(* E2ENetworksLLM (llm_wrapper.py) and the Streamlit chat application      *)
(* with its own wrapper E2ELLM (app.py).                                   *)
(*                                                                         *)
(* Python values are tagged records [k, s]: k is the type, s the text      *)
(* Python's str() gives for the value. Numbers are kept as their literal   *)
(* text ("0.7", "1000"), so no arithmetic is done on them and str() of a   *)
(* number is a change of tag, not the identity.                            *)
(***************************************************************************)
EXTENDS Integers, Sequences, FiniteSets, TLC

VARIABLES
    result,       \* the parsed JSON object handed to _extract_generated_text
    extracted,    \* what _extract_generated_text did with it
    env,          \* the process environment: E2E_ENDPOINT_URL, E2E_API_KEY
    made,         \* the last construction of an E2ENetworksLLM: arguments, outcome
    llm,          \* the E2ENetworksLLM instance, once constructed
    raised,       \* the exception the last operation let through to its caller
    call,         \* the last E2ENetworksLLM._call: its arguments, POST and return
    batch,        \* the E2ENetworksLLM._generate in progress
    session,      \* app.py: st.session_state
    run,          \* app.py: the run of main() in progress and its widget values
    sent          \* app.py: the last POST E2ELLM._call attempted

vars == <<result, extracted, env, made, llm, raised, call, batch, session, run, sent>>
wrapperVars == <<env, made, llm, raised, call, batch>>
appVars == <<session, run, sent>>

---------------------------------------------------------------------------
(* Python values *)

Str(x) == [k |-> "str", s |-> x]
Num(x) == [k |-> "num", s |-> x]
PyNone == [k |-> "null", s |-> "None"]
\* a key that is not in a dict
Absent == [k |-> "absent"]

\* str(v): a string is returned as it is, anything else is formatted
PyStr(v) == IF v.k = "str" THEN v ELSE Str(v.s)

\* repr(v), as it appears inside str() of a dict or of a list
PyRepr(v) == IF v.k = "str" THEN "'" \o v.s \o "'" ELSE v.s

\* the outcome of a function: a returned value or a raised exception
Return(v) == [exc |-> "none", value |-> v]
Raise(e) == [exc |-> e, value |-> Absent]
NotRun == [exc |-> "notrun", value |-> Absent]

\* the values the variables hold while their part of the program has not run
NoEnv == [E2E_ENDPOINT_URL |-> PyNone, E2E_API_KEY |-> PyNone]
NoConstruct == [k |-> "noconstruct"]
NoInstance == [k |-> "noinstance"]
NoCall == [k |-> "nocall"]
NoBatch == [pc |-> "none"]
NoSession == [messages |-> Absent, llm |-> Absent]
NoRun == [pc |-> "idle"]
NoPost == [k |-> "nopost"]
NoResult == [k |-> "noresult"]

---------------------------------------------------------------------------
(* Parsed responses.  A response object is [choices, fields]: choices is   *)
(* the value under "choices" (Absent, a non-list, or a list of elements),  *)
(* fields the other top-level members in the order the JSON text gave them.*)

JObj(text, message) == [k |-> "obj", text |-> text, message |-> message]
JMsg(content) == [k |-> "obj", content |-> content]
JList(items) == [k |-> "list", items |-> items]
Field(key, val) == [key |-> key, val |-> val]

\* the list with its first two names exchanged
text_fields_text_first ==
    <<"text", "response", "generated_text", "output", "completion", "answer", "result">>

text_fields ==
    <<"response", "text", "generated_text", "output", "completion", "answer", "result">>

HasKey(fields, key) == \E i \in 1..Len(fields) : fields[i].key = key

Lookup(fields, key) ==
    fields[CHOOSE i \in 1..Len(fields) : fields[i].key = key].val

RECURSIVE ReprFields(_, _)
ReprFields(fields, i) ==
    IF i > Len(fields) THEN ""
    ELSE "'" \o fields[i].key \o "': " \o PyRepr(fields[i].val)
         \o (IF i < Len(fields) THEN ", " ELSE "")
         \o ReprFields(fields, i + 1)

ReprMessage(m) ==
    IF m.k # "obj" THEN PyRepr(m)
    ELSE "{" \o (IF m.content = Absent THEN ""
                 ELSE "'content': " \o PyRepr(m.content)) \o "}"

ReprChoice(c) ==
    IF c.k # "obj" THEN PyRepr(c)
    ELSE "{"
         \o (IF c.text = Absent THEN "" ELSE "'text': " \o PyRepr(c.text))
         \o (IF c.text # Absent /\ c.message # Absent THEN ", " ELSE "")
         \o (IF c.message = Absent THEN ""
             ELSE "'message': " \o ReprMessage(c.message))
         \o "}"

RECURSIVE ReprItems(_, _)
ReprItems(items, i) ==
    IF i > Len(items) THEN ""
    ELSE ReprChoice(items[i]) \o (IF i < Len(items) THEN ", " ELSE "")
         \o ReprItems(items, i + 1)

ReprChoices(cv) ==
    IF cv.k = "list" THEN "[" \o ReprItems(cv.items, 1) \o "]" ELSE PyRepr(cv)

\* str(result) of the whole response object
ReprResult(r) ==
    "{"
    \o (IF r.choices = Absent THEN "" ELSE "'choices': " \o ReprChoices(r.choices))
    \o (IF r.choices # Absent /\ Len(r.fields) > 0 THEN ", " ELSE "")
    \o ReprFields(r.fields, 1)
    \o "}"

---------------------------------------------------------------------------
(* E2ENetworksLLM._extract_generated_text *)

\* for field in text_fields: if field in result: return str(result[field])
\* and, with no field found, return str(result)
RECURSIVE DirectTextFields(_, _)
DirectTextFields(r, i) ==
    IF i > Len(text_fields) THEN Return(Str(ReprResult(r)))
    ELSE IF HasKey(r.fields, text_fields[i])
         THEN Return(PyStr(Lookup(r.fields, text_fields[i])))
         ELSE DirectTextFields(r, i + 1)

\* `"text" in choice` and `"content" in choice["message"]` raise TypeError
\* on a number or on None
_extract_generated_text(r) ==
    IF r.choices.k = "list" /\ Len(r.choices.items) > 0
    THEN LET choice == r.choices.items[1] IN
         IF choice.k # "obj" THEN Raise("TypeError")
         ELSE IF choice.text # Absent THEN Return(choice.text)
         ELSE IF choice.message = Absent THEN DirectTextFields(r, 1)
         ELSE IF choice.message.k # "obj" THEN Raise("TypeError")
         ELSE IF choice.message.content # Absent
              THEN Return(choice.message.content)
              ELSE DirectTextFields(r, 1)
    ELSE DirectTextFields(r, 1)

---------------------------------------------------------------------------
(* The responses the extraction is run on *)

MaxFields == 2

FieldKeys == {text_fields[i] : i \in 1..Len(text_fields)} \cup {"foo"}
FieldVals == {Str("D"), Num("5")}

RECURSIVE FieldSeqs(_)
FieldSeqs(n) ==
    IF n = 0 THEN {<<>>}
    ELSE LET shorter == FieldSeqs(n - 1) IN
         shorter \cup
         {Append(fs, Field(key, v)) :
            fs \in {f \in shorter : Len(f) = n - 1},
            key \in FieldKeys, v \in FieldVals}

DistinctKeys(fs) ==
    \A i, j \in 1..Len(fs) : fs[i].key = fs[j].key => i = j

Messages == {Absent, PyNone, JMsg(Absent), JMsg(Str("B")), JMsg(Num("7"))}
ChoiceElems ==
    {JObj(t, m) : t \in {Absent, Str("A"), Num("3")}, m \in Messages}
    \cup {Num("9")}
Decoy == JObj(Str("Z"), JMsg(Str("Y")))

ChoicesVals ==
    {Absent, PyNone, JList(<<>>)}
    \cup {JList(<<c>>) : c \in ChoiceElems}
    \cup {JList(<<c, Decoy>>) : c \in ChoiceElems}

Responses ==
    {[choices |-> cv, fields |-> fs] :
        cv \in ChoicesVals, fs \in {f \in FieldSeqs(MaxFields) : DistinctKeys(f)}}

---------------------------------------------------------------------------
(* Specification of the extraction alone *)

InitExtract ==
    /\ result \in Responses
    /\ extracted = NotRun
    /\ env = NoEnv
    /\ made = NoConstruct
    /\ llm = NoInstance
    /\ raised = "none"
    /\ call = NoCall
    /\ batch = NoBatch
    /\ session = NoSession
    /\ run = NoRun
    /\ sent = NoPost

Extract ==
    /\ extracted = NotRun
    /\ extracted' = _extract_generated_text(result)
    /\ UNCHANGED <<result, wrapperVars, appVars>>

NextExtract == Extract

SpecExtract == InitExtract /\ [][NextExtract]_vars

---------------------------------------------------------------------------
(* E2ENetworksLLM: construction *)

\* Python truth value: None, "" and [] are false
Truthy(v) ==
    CASE v.k = "null" -> FALSE
      [] v.k = "str" -> v.s # ""
      [] v.k = "list" -> Len(v.items) > 0
      [] OTHER -> TRUE

\* a or b
PyOr(a, b) == IF Truthy(a) THEN a ELSE b

\* os.getenv(name): None when the variable is not set
getenv(e, name) == e[name]

default_model_name == Str("e2e-llm")
default_temperature == Num("0.7")
default_max_tokens == Num("1000")
default_top_p == Num("0.9")
default_timeout == Num("30")

\* the constructor without its check of the API key
__init___no_key_check(e, endpoint_url, api_key, model_name, temperature, max_tokens, top_p, timeout) ==
    LET self == [endpoint_url |-> PyOr(endpoint_url, getenv(e, "E2E_ENDPOINT_URL")),
                 api_key |-> PyOr(api_key, getenv(e, "E2E_API_KEY")),
                 model_name |-> model_name,
                 temperature |-> temperature,
                 max_tokens |-> max_tokens,
                 top_p |-> top_p,
                 timeout |-> timeout]
    IN  IF ~Truthy(self.endpoint_url) THEN Raise("ValueError") ELSE Return(self)

\* E2ENetworksLLM.__init__: the instance, or the ValueError it raises
__init__(e, endpoint_url, api_key, model_name, temperature, max_tokens, top_p, timeout) ==
    LET self == [endpoint_url |-> PyOr(endpoint_url, getenv(e, "E2E_ENDPOINT_URL")),
                 api_key |-> PyOr(api_key, getenv(e, "E2E_API_KEY")),
                 model_name |-> model_name,
                 temperature |-> temperature,
                 max_tokens |-> max_tokens,
                 top_p |-> top_p,
                 timeout |-> timeout]
    IN  IF ~Truthy(self.endpoint_url) THEN Raise("ValueError")
        ELSE IF ~Truthy(self.api_key) THEN Raise("ValueError")
        ELSE Return(self)

\* create_e2e_llm(endpoint_url, api_key, **kwargs): kwargs carries the
\* temperature here, the other parameters keep their defaults
create_e2e_llm(e, endpoint_url, api_key, temperature) ==
    __init__(e, endpoint_url, api_key, default_model_name, temperature,
             default_max_tokens, default_top_p, default_timeout)

---------------------------------------------------------------------------
(* E2ENetworksLLM: one call *)

_get_headers(self) ==
    [content_type |-> "application/json",
     authorization |-> "Bearer " \o self.api_key.s,
     accept |-> "application/json"]

\* kwargs.get(key, default)
Get(kwargs, key, default) == IF key \in DOMAIN kwargs THEN kwargs[key] ELSE default

\* the payload with max_tokens always the instance's default
_build_payload_default_max_tokens(self, prompt, stop, kwargs) ==
    LET payload == [prompt |-> prompt,
                    temperature |-> Get(kwargs, "temperature", self.temperature),
                    max_tokens |-> self.max_tokens,
                    top_p |-> Get(kwargs, "top_p", self.top_p),
                    model |-> self.model_name]
        withStop == IF Truthy(stop) THEN payload @@ [stop |-> stop] ELSE payload
        extra == {key \in DOMAIN kwargs :
                    /\ key \notin DOMAIN withStop
                    /\ key \notin {"temperature", "max_tokens", "top_p"}}
    IN  withStop @@ [key \in extra |-> kwargs[key]]

\* the payload with the extra keys written over the fields already there
_build_payload_overwriting(self, prompt, stop, kwargs) ==
    LET payload == [prompt |-> prompt,
                    temperature |-> Get(kwargs, "temperature", self.temperature),
                    max_tokens |-> Get(kwargs, "max_tokens", self.max_tokens),
                    top_p |-> Get(kwargs, "top_p", self.top_p),
                    model |-> self.model_name]
        withStop == IF Truthy(stop) THEN payload @@ [stop |-> stop] ELSE payload
        extra == {key \in DOMAIN kwargs :
                    key \notin {"temperature", "max_tokens", "top_p"}}
    IN  [key \in extra |-> kwargs[key]] @@ withStop

_build_payload(self, prompt, stop, kwargs) ==
    LET payload == [prompt |-> prompt,
                    temperature |-> Get(kwargs, "temperature", self.temperature),
                    max_tokens |-> Get(kwargs, "max_tokens", self.max_tokens),
                    top_p |-> Get(kwargs, "top_p", self.top_p),
                    model |-> self.model_name]
        withStop == IF Truthy(stop) THEN payload @@ [stop |-> stop] ELSE payload
        extra == {key \in DOMAIN kwargs :
                    /\ key \notin DOMAIN withStop
                    /\ key \notin {"temperature", "max_tokens", "top_p"}}
    IN  withStop @@ [key \in extra |-> kwargs[key]]

\* What the network does with the one POST of a call
NetTimeout == [kind |-> "Timeout"]
NetRefused == [kind |-> "ConnectionError", text |-> "connection refused"]
NetStatus(code, body) == [kind |-> "status", code |-> code, body |-> body]
\* a 2xx response whose body is not JSON; response.json() raises exc, which
\* is json.JSONDecodeError or requests' own subclass of it by the version
NetBadJson(exc) == [kind |-> "badjson", exc |-> exc]
NetJson(r) == [kind |-> "json", json |-> r]

\* the exception classes of the handlers and their subclasses
IsA(exc, cls) ==
    \/ exc = cls
    \/ cls = "Exception"
    \/ /\ cls = "RequestException"
       /\ exc \in {"Timeout", "HTTPError", "ConnectionError", "RequestsJSONDecodeError"}
    \/ cls = "JSONDecodeError" /\ exc = "RequestsJSONDecodeError"

\* the body of the try block: requests.post, raise_for_status,
\* response.json and the extraction
TryBody(net) ==
    CASE net.kind = "Timeout" -> Raise("Timeout")
      [] net.kind = "ConnectionError" -> Raise("ConnectionError")
      [] net.kind = "status" -> Raise("HTTPError")
      [] net.kind = "badjson" -> Raise(net.exc)
      [] net.kind = "json" -> _extract_generated_text(net.json)

\* str(e) of the exception the try block raised
ExcText(net, exc) ==
    CASE net.kind = "ConnectionError" -> net.text
      [] net.kind = "status" -> net.code \o " Client Error"
      [] net.kind = "badjson" -> "Expecting value: line 1 column 1 (char 0)"
      [] net.kind = "json" /\ exc = "TypeError" -> "argument is not iterable"
      [] OTHER -> ""

\* the except clauses without the last one, `except Exception`
Handlers_without_catch_all(self, net, exc) ==
    IF IsA(exc, "Timeout")
    THEN Return(Str("Error: " \o "Request to E2E LLM timed out after "
                    \o self.timeout.s \o " seconds"))
    ELSE IF IsA(exc, "HTTPError")
    THEN Return(Str("Error: " \o "HTTP error " \o net.code \o ": " \o net.body))
    ELSE IF IsA(exc, "RequestException")
    THEN Return(Str("Error: " \o "Request failed: " \o ExcText(net, exc)))
    ELSE IF IsA(exc, "JSONDecodeError")
    THEN Return(Str("Error: " \o "Failed to parse JSON response: " \o ExcText(net, exc)))
    ELSE Raise(exc)

\* the except clauses in their order; the first whose class the exception
\* is an instance of handles it
Handlers(self, net, exc) ==
    IF IsA(exc, "Timeout")
    THEN Return(Str("Error: " \o "Request to E2E LLM timed out after "
                    \o self.timeout.s \o " seconds"))
    ELSE IF IsA(exc, "HTTPError")
    THEN Return(Str("Error: " \o "HTTP error " \o net.code \o ": " \o net.body))
    ELSE IF IsA(exc, "RequestException")
    THEN Return(Str("Error: " \o "Request failed: " \o ExcText(net, exc)))
    ELSE IF IsA(exc, "JSONDecodeError")
    THEN Return(Str("Error: " \o "Failed to parse JSON response: " \o ExcText(net, exc)))
    ELSE IF IsA(exc, "Exception")
    THEN Return(Str("Error: " \o "Unexpected error: " \o ExcText(net, exc)))
    ELSE Raise(exc)

\* E2ENetworksLLM._call: the headers and payload it builds, the one POST it
\* makes, what it hands back (a value, or an exception let through), and
\* the instance as the call leaves it
_call(self, prompt, stop, kwargs, net) ==
    LET headers == _get_headers(self)
        payload == _build_payload(self, prompt, stop, kwargs)
        body == TryBody(net)
    IN  [post |-> [url |-> self.endpoint_url, headers |-> headers,
                   json |-> payload, timeout |-> self.timeout],
         out |-> IF body.exc = "none" THEN body
                 ELSE Handlers(self, net, body.exc),
         \* no attribute of self is assigned
         self |-> self]

---------------------------------------------------------------------------
(* The inputs of the wrapper's operations *)

UrlParams == {PyNone, Str(""), Str("https://param.e2e/v1")}
KeyParams == {PyNone, Str(""), Str("key-param")}
TemperatureParams == {default_temperature, Num("0.1")}
Envs ==
    [E2E_ENDPOINT_URL : {PyNone, Str("https://env.e2e/v1")},
     E2E_API_KEY : {PyNone, Str("key-env")}]

Prompts == {"hello", "bye"}
Stops == {PyNone, JList(<<>>), JList(<<Str("END")>>)}

KwargValue ==
    [temperature |-> Num("0.2"), max_tokens |-> Num("50"), top_p |-> Num("0.5"),
     model |-> Str("other-model"), seed |-> Num("42")]
Kwargs == {[key \in keys |-> KwargValue[key]] : keys \in SUBSET {"temperature", "max_tokens", "model", "seed"}}
    \cup {[key \in {"top_p"} |-> KwargValue[key]]}

Resp(cv, fs) == [choices |-> cv, fields |-> fs]
CallResponses ==
    {Resp(JList(<<JObj(Str("A"), Absent)>>), <<>>),
     Resp(JList(<<JObj(Absent, JMsg(Str("B")))>>), <<Field("text", Str("D"))>>),
     Resp(JList(<<JObj(Num("3"), Absent)>>), <<>>),
     Resp(JList(<<JObj(Absent, JMsg(PyNone))>>), <<>>),
     Resp(JList(<<Num("9")>>), <<>>),
     Resp(JList(<<JObj(Absent, PyNone)>>), <<>>),
     Resp(Absent, <<Field("text", Str("C")), Field("response", Str("D"))>>),
     Resp(Absent, <<Field("output", Num("5"))>>),
     Resp(Absent, <<Field("foo", Str("bar"))>>)}

NoKwargs == [key \in {} |-> PyNone]

Nets ==
    {NetTimeout, NetRefused, NetStatus("429", "rate limited"),
     NetStatus("500", "server error"),
     NetBadJson("JSONDecodeError"), NetBadJson("RequestsJSONDecodeError")}
    \cup {NetJson(r) : r \in CallResponses}

\* The calls made: the payload is built before the POST and does not read
\* the answer, and the answer is handled without reading the payload, so
\* the arguments vary against two answers and the answers against one
\* choice of arguments.
CallInputs ==
    {[prompt |-> "hello", stop |-> stop, kwargs |-> kwargs, net |-> net] :
        stop \in Stops, kwargs \in Kwargs,
        net \in {NetTimeout, NetJson(Resp(JList(<<JObj(Str("A"), Absent)>>), <<>>))}}
    \cup {[prompt |-> "bye", stop |-> PyNone, kwargs |-> NoKwargs, net |-> net] :
        net \in Nets}

---------------------------------------------------------------------------
(* Specification of construction *)

\* an environment variable is not set, set to the empty string, or set
ConstructEnvs ==
    [E2E_ENDPOINT_URL : {PyNone, Str(""), Str("https://env.e2e/v1")},
     E2E_API_KEY : {PyNone, Str(""), Str("key-env")}]

InitConstruct ==
    /\ result = NoResult
    /\ extracted = NotRun
    /\ env \in ConstructEnvs
    /\ made = NoConstruct
    /\ llm = NoInstance
    /\ raised = "none"
    /\ call = NoCall
    /\ batch = NoBatch
    /\ session = NoSession
    /\ run = NoRun
    /\ sent = NoPost

\* llm = E2ENetworksLLM(endpoint_url=..., api_key=..., temperature=...):
\* when the constructor raises, the assignment does not happen
Construct ==
    /\ \E u \in UrlParams, key \in KeyParams, t \in TemperatureParams :
         LET out == __init__(env, u, key, default_model_name, t,
                             default_max_tokens, default_top_p, default_timeout)
         IN  /\ made' = [via |-> "E2ENetworksLLM", endpoint_url |-> u,
                         api_key |-> key, temperature |-> t, out |-> out]
             /\ llm' = IF out.exc = "none" THEN out.value ELSE llm
             /\ raised' = out.exc
    /\ UNCHANGED <<result, extracted, env, call, batch, appVars>>

\* llm = create_e2e_llm(endpoint_url=..., api_key=..., temperature=...)
CreateE2ELLM ==
    /\ \E u \in UrlParams, key \in KeyParams, t \in TemperatureParams :
         LET out == create_e2e_llm(env, u, key, t)
         IN  /\ made' = [via |-> "create_e2e_llm", endpoint_url |-> u,
                         api_key |-> key, temperature |-> t, out |-> out]
             /\ llm' = IF out.exc = "none" THEN out.value ELSE llm
             /\ raised' = out.exc
    /\ UNCHANGED <<result, extracted, env, call, batch, appVars>>

NextConstruct == Construct \/ CreateE2ELLM

SpecConstruct == InitConstruct /\ [][NextConstruct]_vars

---------------------------------------------------------------------------
(* Specification of single calls on a constructed instance *)

\* the instances construction can yield in environment e
Instances(e) ==
    {__init__(e, u, key, default_model_name, t, default_max_tokens,
              default_top_p, default_timeout).value :
        <<u, key, t>> \in
            {x \in UrlParams \X KeyParams \X TemperatureParams :
                __init__(e, x[1], x[2], default_model_name, x[3],
                         default_max_tokens, default_top_p,
                         default_timeout).exc = "none"}}

InitCall ==
    /\ result = NoResult
    /\ extracted = NotRun
    /\ env \in Envs
    /\ made = NoConstruct
    /\ llm \in Instances(env)
    /\ raised = "none"
    /\ call = NoCall
    /\ batch = NoBatch
    /\ session = NoSession
    /\ run = NoRun
    /\ sent = NoPost

\* llm._call(prompt, stop, **kwargs), with what the network answers
Call ==
    /\ llm # NoInstance
    /\ \E in \in CallInputs :
         LET done == _call(llm, in.prompt, in.stop, in.kwargs, in.net)
         IN  /\ call' = [prompt |-> in.prompt, stop |-> in.stop, kwargs |-> in.kwargs,
                         net |-> in.net, post |-> done.post, out |-> done.out]
             /\ llm' = done.self
             /\ raised' = done.out.exc
    /\ UNCHANGED <<result, extracted, env, made, batch, appVars>>

NextCall == Call

SpecCall == InitCall /\ [][NextCall]_vars

---------------------------------------------------------------------------
(* E2ENetworksLLM._generate *)

MaxPrompts == 3

\* Generation(text=response)
Generation(text) == [text |-> text]

\* the iteration leaving the loop after a call that returned an error
generate_iteration_stop_on_error(b, self, net) ==
    LET done == _call(self, b.prompts[b.i], b.stop, b.kwargs, net) IN
    IF done.out.exc # "none"
    THEN [b EXCEPT !.pc = "raised",
                   !.posts = Append(@, done.post),
                   !.nets = Append(@, net)]
    ELSE [b EXCEPT !.i = IF net.kind = "json" THEN @ + 1 ELSE Len(b.prompts) + 1,
                   !.generations = Append(@, <<Generation(done.out.value)>>),
                   !.posts = Append(@, done.post),
                   !.nets = Append(@, net)]

\* one iteration of `for prompt in prompts`: the call, its POST, and the
\* generation appended; an exception out of _call would end the loop
generate_iteration(b, self, net) ==
    LET done == _call(self, b.prompts[b.i], b.stop, b.kwargs, net) IN
    IF done.out.exc # "none"
    THEN [b EXCEPT !.pc = "raised",
                   !.posts = Append(@, done.post),
                   !.nets = Append(@, net)]
    ELSE [b EXCEPT !.i = @ + 1,
                   !.generations = Append(@, <<Generation(done.out.value)>>),
                   !.posts = Append(@, done.post),
                   !.nets = Append(@, net)]

RECURSIVE PromptSeqs(_)
PromptSeqs(n) ==
    IF n = 0 THEN {<<>>}
    ELSE LET shorter == PromptSeqs(n - 1) IN
         shorter \cup {Append(ps, q) : ps \in {x \in shorter : Len(x) = n - 1},
                                        q \in Prompts}

BatchNets ==
    {NetTimeout, NetStatus("429", "rate limited"),
     NetJson(Resp(JList(<<JObj(Str("A"), Absent)>>), <<>>)),
     NetJson(Resp(Absent, <<Field("text", Str("C")), Field("response", Str("D"))>>))}

\* the instances a batch is run on
BatchInstances ==
    {__init__(NoEnv, Str("https://param.e2e/v1"), Str("key-param"),
              default_model_name, t, default_max_tokens, default_top_p,
              default_timeout).value : t \in TemperatureParams}

InitBatch ==
    /\ result = NoResult
    /\ extracted = NotRun
    /\ env = NoEnv
    /\ made = NoConstruct
    /\ llm \in BatchInstances
    /\ raised = "none"
    /\ call = NoCall
    /\ batch = NoBatch
    /\ session = NoSession
    /\ run = NoRun
    /\ sent = NoPost

\* llm._generate(prompts, stop, **kwargs) is entered: generations = []
GenerateStart ==
    /\ llm # NoInstance
    /\ batch.pc \in {"none", "returned", "raised"}
    /\ \E prompts \in PromptSeqs(MaxPrompts), stop \in {PyNone, JList(<<Str("END")>>)} :
         batch' = [pc |-> "loop", prompts |-> prompts, stop |-> stop,
                   kwargs |-> NoKwargs, i |-> 1, generations |-> <<>>,
                   posts |-> <<>>, nets |-> <<>>]
    /\ raised' = "none"
    /\ UNCHANGED <<result, extracted, env, made, llm, call, appVars>>

\* the loop body, once, for the next prompt
GenerateStep ==
    /\ batch.pc = "loop"
    /\ batch.i <= Len(batch.prompts)
    /\ \E net \in BatchNets :
         /\ batch' = generate_iteration(batch, llm, net)
         /\ llm' = _call(llm, batch.prompts[batch.i], batch.stop,
                         batch.kwargs, net).self
         /\ raised' = IF generate_iteration(batch, llm, net).pc = "raised"
                       THEN "Exception" ELSE "none"
    /\ UNCHANGED <<result, extracted, env, made, call, appVars>>

\* return LLMResult(generations=generations)
GenerateReturn ==
    /\ batch.pc = "loop"
    /\ batch.i > Len(batch.prompts)
    /\ batch' = [batch EXCEPT !.pc = "returned"]
    /\ UNCHANGED <<result, extracted, env, made, llm, raised, call, appVars>>

NextBatch == GenerateStart \/ GenerateStep \/ GenerateReturn

SpecBatch == InitBatch /\ [][NextBatch]_vars

---------------------------------------------------------------------------
(* app.py: the wrapper E2ELLM *)

\* os.getenv(name, "")
getenv_or_empty(e, name) == IF e[name] = PyNone THEN Str("") ELSE e[name]

\* E2ELLM(): the class defaults, and the credentials read from the environment
E2ELLM(e) ==
    [endpoint_url |-> getenv_or_empty(e, "E2E_ENDPOINT_URL"),
     api_key |-> getenv_or_empty(e, "E2E_API_KEY"),
     model_name |-> Str("e2e-llm"),
     temperature |-> Num("0.7"),
     max_tokens |-> Num("1000")]

\* result.get(key, default)
DictGet(r, key, default) ==
    IF HasKey(r.fields, key) THEN Lookup(r.fields, key) ELSE default

\* requests.post with an empty URL raises MissingSchema, a RequestException,
\* before anything is sent
AppTryBody(self, net) ==
    IF ~Truthy(self.endpoint_url) THEN Raise("MissingSchema")
    ELSE CASE net.kind = "Timeout" -> Raise("Timeout")
           [] net.kind = "ConnectionError" -> Raise("ConnectionError")
           [] net.kind = "status" -> Raise("HTTPError")
           [] net.kind = "badjson" -> Raise(net.exc)
           [] net.kind = "json" ->
                Return(DictGet(net.json, "response",
                               DictGet(net.json, "text", Str("No response received"))))

AppHandlers(exc) ==
    IF exc = "MissingSchema" \/ IsA(exc, "RequestException")
    THEN Return(Str("Error calling E2E LLM: " \o exc))
    ELSE IF IsA(exc, "JSONDecodeError")
    THEN Return(Str("Error parsing response: " \o exc))
    ELSE Raise(exc)

\* E2ELLM._call(prompt, stop): the POST it attempts and what it hands back
E2ELLM_call(self, prompt, stop, net) ==
    LET headers == [content_type |-> "application/json",
                    authorization |-> "Bearer " \o self.api_key.s]
        payload == [prompt |-> prompt,
                    temperature |-> self.temperature,
                    max_tokens |-> self.max_tokens,
                    stop |-> stop]
        body == AppTryBody(self, net)
    IN  [post |-> [url |-> self.endpoint_url, api_key |-> self.api_key,
                   headers |-> headers, json |-> payload, stop |-> stop],
         out |-> IF body.exc = "none" THEN body ELSE AppHandlers(body.exc)]

\* get_llm_response(prompt): st.session_state.llm._call(prompt), any
\* exception turned into a message
get_llm_response(self, prompt, net) ==
    LET done == E2ELLM_call(self, prompt, PyNone, net) IN
    [post |-> done.post,
     response |-> IF done.out.exc = "none" THEN done.out.value
                  ELSE Str("Error getting response: " \o done.out.exc)]

---------------------------------------------------------------------------
(* app.py: main(), one run of the script per user interaction *)

MaxMessages == 4

Message(role, content) == [role |-> role, content |-> content]

AppNets ==
    {NetTimeout, NetBadJson("JSONDecodeError"),
     NetJson(Resp(Absent, <<Field("text", Str("C")), Field("response", Str("D"))>>)),
     NetJson(Resp(Absent, <<Field("foo", Str("bar"))>>))}

\* what the user can leave or type in the sidebar's two text inputs, which
\* start out as the environment's values
UrlInputs(e) == {getenv_or_empty(e, "E2E_ENDPOINT_URL"), Str(""), Str("https://typed.e2e/v1")}
KeyInputs(e) == {getenv_or_empty(e, "E2E_API_KEY"), Str(""), Str("key-typed")}
TemperatureInputs == {Num("0.7"), Num("1.5")}
MaxTokensInputs == {Num("1000")}

InitApp ==
    /\ result = NoResult
    /\ extracted = NotRun
    /\ env \in Envs
    /\ made = NoConstruct
    /\ llm = NoInstance
    /\ raised = "none"
    /\ call = NoCall
    /\ batch = NoBatch
    /\ session = NoSession
    /\ run = NoRun
    /\ sent = NoPost

\* a user interaction starts a run of main() from the top: the page is
\* loaded, one of the two buttons is clicked, or a chat message is submitted
StartRun ==
    /\ run.pc \in {"idle", "crashed"}
    /\ \E event \in {"load", "update", "clear", "chat"},
          u \in UrlInputs(env), key \in KeyInputs(env), t \in TemperatureInputs,
          m \in MaxTokensInputs, net \in AppNets :
         /\ event = "chat" =>
              (IF session.messages = Absent THEN TRUE
               ELSE Len(session.messages.items) + 2 <= MaxMessages)
         /\ event # "update" =>
              /\ u = getenv_or_empty(env, "E2E_ENDPOINT_URL")
              /\ key = getenv_or_empty(env, "E2E_API_KEY")
              /\ t = Num("0.7")
         /\ event # "chat" => net = NetTimeout
         /\ run' = [pc |-> "update", event |-> event, endpoint_url |-> u,
                    api_key |-> key, temperature |-> t, max_tokens |-> m,
                    prompt |-> IF event = "chat" THEN Str("hi") ELSE PyNone,
                    net |-> net]
    /\ UNCHANGED <<result, extracted, wrapperVars, session, sent>>

\* if st.button("Update Configuration"): st.session_state.llm.... = ...
UpdateConfiguration ==
    /\ run.pc = "update"
    /\ IF run.event # "update"
       THEN run' = [run EXCEPT !.pc = "clear"] /\ UNCHANGED session
       ELSE IF session.llm = Absent
       THEN run' = [pc |-> "crashed"] /\ UNCHANGED session
       ELSE /\ session' = [session EXCEPT
                 !.llm = [@ EXCEPT !.endpoint_url = run.endpoint_url,
                                   !.api_key = run.api_key,
                                   !.temperature = run.temperature,
                                   !.max_tokens = run.max_tokens]]
            /\ run' = [run EXCEPT !.pc = "clear"]
    /\ UNCHANGED <<result, extracted, wrapperVars, sent>>

\* if st.button("Clear Chat History"): messages = []; st.rerun()
ClearChatHistory ==
    /\ run.pc = "clear"
    /\ IF run.event # "clear"
       THEN run' = [run EXCEPT !.pc = "stats"] /\ UNCHANGED session
       ELSE /\ session' = [session EXCEPT !.messages = JList(<<>>)]
            /\ run' = [run EXCEPT !.pc = "update", !.event = "load"]
    /\ UNCHANGED <<result, extracted, wrapperVars, sent>>

\* st.metric("Total Messages", len(st.session_state.messages)) and the
\* two counts by role
ChatStats ==
    /\ run.pc = "stats"
    /\ run' = IF session.messages = Absent THEN [pc |-> "crashed"]
              ELSE [run EXCEPT !.pc = "init"]
    /\ UNCHANGED <<result, extracted, wrapperVars, session, sent>>

initialize_session_state(ss, e) ==
    [messages |-> IF ss.messages = Absent THEN JList(<<>>) ELSE ss.messages,
     llm |-> IF ss.llm = Absent THEN E2ELLM(e) ELSE ss.llm]

InitializeSessionState ==
    /\ run.pc = "init"
    /\ session' = initialize_session_state(session, env)
    /\ run' = [run EXCEPT !.pc = "chat"]
    /\ UNCHANGED <<result, extracted, wrapperVars, sent>>

\* display_chat_messages(), then the chat input: the user's message, the
\* call, the assistant's message
ChatInput ==
    /\ run.pc = "chat"
    /\ IF run.event # "chat"
       THEN UNCHANGED <<session, sent>>
       ELSE LET got == get_llm_response(session.llm, run.prompt.s, run.net) IN
            /\ session' = [session EXCEPT !.messages.items =
                   @ \o <<Message("user", run.prompt),
                          Message("assistant", got.response)>>]
            /\ sent' = got.post
    /\ run' = [pc |-> "idle"]
    /\ UNCHANGED <<result, extracted, wrapperVars>>

NextApp ==
    \/ StartRun
    \/ UpdateConfiguration
    \/ ClearChatHistory
    \/ ChatStats
    \/ InitializeSessionState
    \/ ChatInput

SpecApp == InitApp /\ [][NextApp]_vars

---------------------------------------------------------------------------
(* The claims *)

StartsWith(str, prefix) ==
    Len(str) >= Len(prefix) /\ SubSeq(str, 1, Len(prefix)) = prefix

Contains(str, part) ==
    \E i \in 1..(Len(str) - Len(part) + 1) : SubSeq(str, i, i + Len(part) - 1) = part

\* C1 ----------------------------------------------------------------------

\* the priority order as the claim gives it
C1_Order ==
    <<"response", "text", "generated_text", "output", "completion", "answer", "result">>

\* rule (1): the value found under "choices", Absent when there is none
C1_ChoiceValue(r) ==
    IF r.choices.k = "list" /\ Len(r.choices.items) > 0 /\ r.choices.items[1].k = "obj"
    THEN LET first == r.choices.items[1] IN
         IF first.text # Absent THEN first.text
         ELSE IF first.message.k = "obj" /\ first.message.content # Absent
              THEN first.message.content
              ELSE Absent
    ELSE Absent

\* rule (2): the first field present, in the claim's order, as a string
C1_FieldValue(r) ==
    IF \E i \in 1..Len(C1_Order) : HasKey(r.fields, C1_Order[i])
    THEN LET i == CHOOSE n \in 1..Len(C1_Order) :
                    /\ HasKey(r.fields, C1_Order[n])
                    /\ \A m \in 1..(n - 1) : ~HasKey(r.fields, C1_Order[m])
         IN  PyStr(Lookup(r.fields, C1_Order[i]))
    ELSE Absent

C1_Expected(r) ==
    IF C1_ChoiceValue(r) # Absent THEN C1_ChoiceValue(r)
    ELSE IF C1_FieldValue(r) # Absent THEN C1_FieldValue(r)
    ELSE Str(ReprResult(r))

\* the first element of "choices", when there is one, is an object, and its
\* "message", when it has one, is an object
C1_ObjectChoices(r) ==
    (r.choices.k = "list" /\ Len(r.choices.items) > 0) =>
        /\ r.choices.items[1].k = "obj"
        /\ r.choices.items[1].message.k \in {"absent", "obj"}

C2_Failed(net) ==
    \/ net.kind \in {"Timeout", "ConnectionError", "status", "badjson"}
    \/ net.kind = "json" /\ _extract_generated_text(net.json).exc # "none"

\* C2: _call lets no exception through, and after each of the failures
\* (timeout, HTTP status, transport, invalid JSON, anything else such as an
\* exception out of the extraction) it returns a string starting "Error:".
C2_NeverPropagates ==
    call # NoCall =>
        /\ call.out.exc = "none"
        /\ raised = "none"
        /\ C2_Failed(call.net) =>
             /\ call.out.value.k = "str"
             /\ StartsWith(call.out.value.s, "Error:")

\* the extraction raised TypeError on a "choices" list of numbers and the
\* call returned the message of the last handler
C2_Witness ==
    /\ call # NoCall
    /\ call.net = NetJson(Resp(JList(<<Num("9")>>), <<>>))
    /\ call.out = Return(Str("Error: Unexpected error: argument is not iterable"))

\* C3 ----------------------------------------------------------------------

\* what the i-th prompt's generation must be, from the answer to its POST
C3_Outcome(self, net) ==
    CASE net.kind = "Timeout" ->
            Str("Error: Request to E2E LLM timed out after " \o self.timeout.s \o " seconds")
      [] net.kind = "status" ->
            Str("Error: HTTP error " \o net.code \o ": " \o net.body)
      [] net.kind = "json" -> C1_Expected(net.json)

\* C3: while _generate runs, one POST has been made for each prompt already
\* handled, in input order, and one generation appended for it; when it
\* returns, there are as many generations as prompts, the i-th being the
\* outcome of the i-th prompt's single POST whatever happened to the others.
C3_BatchInOrder ==
    batch.pc \in {"loop", "returned"} =>
        /\ Len(batch.generations) = batch.i - 1
        /\ Len(batch.posts) = batch.i - 1
        /\ batch.i - 1 <= Len(batch.prompts)
        /\ batch.pc = "returned" => Len(batch.generations) = Len(batch.prompts)
        /\ \A n \in 1..Len(batch.generations) :
             /\ batch.posts[n].json.prompt = batch.prompts[n]
             /\ batch.generations[n] = <<Generation(C3_Outcome(llm, batch.nets[n]))>>

\* a batch of three returned, the second prompt's call having timed out
C3_Witness ==
    /\ batch.pc = "returned"
    /\ Len(batch.prompts) = 3
    /\ batch.nets[2] = NetTimeout
    /\ Contains(batch.generations[2][1].text.s, "timed out")
    /\ batch.generations[1][1].text = Str("A")
    /\ batch.generations[3][1].text = Str("D")

\* C4 ----------------------------------------------------------------------

\* C4: a construction whose endpoint URL (or API key) is empty or absent
\* both as parameter and in the environment raises the configuration error
\* and yields no instance; a parameter that is given wins over the
\* environment variable.
C4_ConstructionFails ==
    made # NoConstruct =>
        /\ (\/ ~Truthy(made.endpoint_url) /\ ~Truthy(env.E2E_ENDPOINT_URL)
            \/ ~Truthy(made.api_key) /\ ~Truthy(env.E2E_API_KEY))
           => made.out = Raise("ValueError") /\ raised = "ValueError"
        /\ made.out.exc = "none" =>
             /\ llm = made.out.value
             /\ Truthy(llm.endpoint_url) /\ Truthy(llm.api_key)
             /\ Truthy(made.endpoint_url) => llm.endpoint_url = made.endpoint_url
             /\ Truthy(made.api_key) => llm.api_key = made.api_key

\* a construction with a URL but an empty key and no key in the environment
\* failed
C4_Witness ==
    /\ made # NoConstruct
    /\ made.endpoint_url = Str("https://param.e2e/v1")
    /\ made.api_key = Str("")
    /\ env.E2E_API_KEY = PyNone
    /\ env.E2E_ENDPOINT_URL = Str("https://env.e2e/v1")
    /\ made.out = Raise("ValueError")

\* C5 ----------------------------------------------------------------------

C5_Payload ==
    call # NoCall =>
        /\ \A f \in {"temperature", "max_tokens", "top_p"} :
             call.post.json[f] = IF f \in DOMAIN call.kwargs THEN call.kwargs[f]
                                 ELSE llm[f]
        /\ call.post.json.model = llm.model_name
        /\ call.post.json.prompt = call.prompt

\* C5: an override of temperature, max_tokens or top_p is the payload's
\* value for that call; every field not overridden carries the instance's
\* default; and no call changes the instance, so a later call without
\* overrides is built from the original defaults.
C5_OverrideThisCallOnly == [](C5_Payload) /\ [][llm' = llm]_vars

\* a call overrode the temperature only
C5_Witness ==
    /\ call # NoCall
    /\ DOMAIN call.kwargs = {"temperature"}
    /\ llm.temperature = Num("0.7")
    /\ call.post.json.temperature = Num("0.2")
    /\ call.post.json.max_tokens = Num("1000")

\* C6 ----------------------------------------------------------------------

\* C6 as claimed: every override key other than temperature, max_tokens and
\* top_p is a payload field with the caller's value.
C6_EveryExtraKeyPassed ==
    call # NoCall =>
        \A key \in DOMAIN call.kwargs \ {"temperature", "max_tokens", "top_p"} :
            /\ key \in DOMAIN call.post.json
            /\ call.post.json[key] = call.kwargs[key]

\* C6 as amended: every override key other than temperature, max_tokens,
\* top_p and model is a payload field with the caller's value; an override
\* named model is dropped, the payload's model staying the instance's.
C6_ExtraKeysExceptModel ==
    call # NoCall =>
        /\ \A key \in DOMAIN call.kwargs \ {"temperature", "max_tokens", "top_p", "model"} :
             /\ key \in DOMAIN call.post.json
             /\ call.post.json[key] = call.kwargs[key]
        /\ call.post.json.model = llm.model_name

\* a call was given both model and seed as overrides
C6_Witness ==
    /\ call # NoCall
    /\ DOMAIN call.kwargs = {"model", "seed"}
    /\ call.post.json.seed = Num("42")
    /\ call.post.json.model = Str("e2e-llm")

\* C7 ----------------------------------------------------------------------

C7_StopRule(json, stop) ==
    /\ "stop" \in DOMAIN json <=> Truthy(stop)
    /\ "stop" \in DOMAIN json => json.stop = stop

\* C7: every payload built, by either wrapper, has a stop key exactly when
\* the caller gave a non-empty list of stop sequences, and then that list.
C7_StopOnlyWhenGiven ==
    /\ call # NoCall => C7_StopRule(call.post.json, call.stop)
    /\ sent # NoPost => C7_StopRule(sent.json, sent.stop)

\* the half of C7 that is about E2ENetworksLLM._build_payload
C7_WrapperStopRule == call # NoCall => C7_StopRule(call.post.json, call.stop)

\* C8 ----------------------------------------------------------------------

\* C8: what _call hands back is a string.
C8_AlwaysString ==
    call # NoCall => call.out.exc = "none" /\ call.out.value.k = "str"

\* C9 ----------------------------------------------------------------------

\* C9: the chat application attempts no POST with an empty endpoint URL or
\* an empty API key.
C9_NoPostWithoutCredentials ==
    sent # NoPost => Truthy(sent.url) /\ Truthy(sent.api_key)

\* C10 ---------------------------------------------------------------------

\* C10: when a step of main() is about to use st.session_state.llm (the
\* configuration update) or st.session_state.messages (the clear-history
\* action, the chat statistics), the entry has been initialized.
C10_InitializedBeforeUse ==
    /\ (run.pc = "update" /\ run.event = "update") => session.llm # Absent
    /\ (run.pc = "clear" /\ run.event = "clear") => session.messages # Absent
    /\ run.pc = "stats" => session.messages # Absent

====
